---- MODULE Spec2Model ----
(***************************************************************************)
(* A model of dta.Link (src/dta/Link.py): the base class of a link of a    *)
(* transportation network, its constructor, accessors, getOtherEnd, the   *)
(* geometric queries and hasSameAttributes.                                *)
(*                                                                         *)
(* Python values are modelled as follows.                                  *)
(*  - a label is a tagged value: None or a str;                            *)
(*  - an endpoint argument is an object with a class: a Node (named by     *)
(*    its reference) or a plain tuple;                                     *)
(*  - a float is a fixed-point number, an integer count of 1/Scale units,  *)
(*    and every float operation rounds its exact result to the nearest     *)
(*    unit, as IEEE arithmetic rounds to the nearest double;               *)
(*  - an object is its attribute dictionary: the set of attribute names    *)
(*    stored so far ("set") and their values;                              *)
(*  - a call's outcome is a record: a returned value or a raised           *)
(*    exception with its class and arguments.                              *)
(***************************************************************************)
EXTENDS Integers, Sequences, FiniteSets, TLC

(***************************************************************************)
(* Bounds of the model.                                                    *)
(***************************************************************************)
NumNodes == 3
MaxNodeId == 2
MaxId == 2
MaxCoord == 1
Far == 12
MaxAttr == 1
MaxDiffer == 1

(***************************************************************************)
(* Fixed-point resolution of the modelled floats (two decimal digits).     *)
(***************************************************************************)
Scale == 10 ^ 2

VARIABLES
    link,     \* link[l]: the attribute dictionary of Link object l
    status,   \* status[l]: "unborn", "live" (constructed) or "failed" (__init__ raised)
    hist,     \* hist[l]: where l's label came from: the constructor's or the last setLabel's argument
    nodeX,    \* nodeX[n]: the x coordinate of Node n (a float: feet, in 1/Scale units)
    nodeY,    \* nodeY[n]: the y coordinate of Node n (a float: feet, in 1/Scale units)
    ret       \* the last call: operation, receiver, argument and outcome

vars == <<link, status, hist, nodeX, nodeY, ret>>

LinkRef == {"self", "other"}
NodeRef == 1 .. NumNodes
\* positions on whole feet: near the origin, and far from it
Coord ==
    {c * Scale : c \in {c \in (0 - Far) .. Far : c = Far \/ c = 0 - Far \/ (c >= 0 - MaxCoord /\ c <= MaxCoord)}}
\* an offset so small that its square falls below the resolution of the float
\* format, as the square of 1e-160 does for an IEEE double
Tiny == Scale \div 8
FineCoord == {0 - Scale, 0 - Tiny, 0, Tiny, Scale}

(***************************************************************************)
(* Python values.                                                          *)
(***************************************************************************)
PyNone == [type |-> "NoneType", v |-> ""]
PyStr(s) == [type |-> "str", v |-> s]
Falsy(x) == x.type = "NoneType" \/ x.v = ""

NodeObj(n) == [cls |-> "Node", ref |-> n]
PairObj == [cls |-> "tuple", ref |-> 0]
Absent == [cls |-> "absent", ref |-> 0]
isinstance_Node(v) == v.cls = "Node"

Return(v) == [kind |-> "return", exc |-> "", val |-> v]
Raise(e, args) == [kind |-> "raise", exc |-> e, val |-> args]

(***************************************************************************)
(* The Node collaborator (dta.Node is not part of the sources): identity   *)
(* by reference, an integer id that the network, not Link, keeps unique,   *)
(* and a position read through getX / getY as floats.                      *)
(***************************************************************************)
Node_getId(v) == ((v.ref - 1) % MaxNodeId) + 1
Node_getX(v) == nodeX[v.ref]
Node_getY(v) == nodeY[v.ref]
Node_eq(a, b) == a = b

(***************************************************************************)
(* Link: class attributes and the constructor.                             *)
(***************************************************************************)
DEFAULT_LABEL == PyStr("")

ExtNames == {"_facilityType", "_freeflowSpeed", "_effectiveLengthFactor",
             "_responseTimeFactor", "_numLanes", "_roundAbout", "_level"}

\* object.__new__(Link): no attribute stored yet
Blank ==
    [set |-> {}, _id |-> 0, _label |-> PyNone, _startNode |-> Absent, _endNode |-> Absent,
     _facilityType |-> 0, _freeflowSpeed |-> 0, _effectiveLengthFactor |-> 0,
     _responseTimeFactor |-> 0, _numLanes |-> 0, _roundAbout |-> 0, _level |-> 0]

Store(o, name, v) == [o EXCEPT ![name] = v, !.set = @ \cup {name}]

\* mutation: the endpoints are stored before they are validated
Link__init__StoreFirst(self, id_, startNode, endNode, label) ==
    LET o1 == Store(self, "_id", id_)
        o2 == Store(o1, "_label", IF ~Falsy(label) THEN label ELSE DEFAULT_LABEL)
        o3 == Store(o2, "_startNode", startNode)
        o4 == Store(o3, "_endNode", endNode)
    IN  IF ~isinstance_Node(startNode)
        THEN [obj |-> o4, out |-> Raise("DtaError", <<"Initializing Link with non-Node startNode", startNode>>)]
        ELSE IF ~isinstance_Node(endNode)
        THEN [obj |-> o4, out |-> Raise("DtaError", <<"Initializing Link with non-Node endNode", endNode>>)]
        ELSE [obj |-> o4, out |-> Return(PyNone)]

\* mutation: the end node is validated before the start node
Link__init__EndFirst(self, id_, startNode, endNode, label) ==
    LET o1 == Store(self, "_id", id_)
        o2 == Store(o1, "_label", IF ~Falsy(label) THEN label ELSE DEFAULT_LABEL)
        o3 == Store(o2, "_startNode", startNode)
        o4 == Store(o3, "_endNode", endNode)
    IN  IF ~isinstance_Node(endNode)
        THEN [obj |-> o2, out |-> Raise("DtaError", <<"Initializing Link with non-Node endNode", endNode>>)]
        ELSE IF ~isinstance_Node(startNode)
        THEN [obj |-> o2, out |-> Raise("DtaError", <<"Initializing Link with non-Node startNode", startNode>>)]
        ELSE [obj |-> o4, out |-> Return(PyNone)]

\* Link.__init__: the object as __init__ leaves it, and the outcome
Link__init__(self, id_, startNode, endNode, label) ==
    LET o1 == Store(self, "_id", id_)
        o2 == Store(o1, "_label", IF ~Falsy(label) THEN label ELSE DEFAULT_LABEL)
        o3 == Store(o2, "_startNode", startNode)
        o4 == Store(o3, "_endNode", endNode)
    IN  IF ~isinstance_Node(startNode)
        THEN [obj |-> o2, out |-> Raise("DtaError", <<"Initializing Link with non-Node startNode", startNode>>)]
        ELSE IF ~isinstance_Node(endNode)
        THEN [obj |-> o2, out |-> Raise("DtaError", <<"Initializing Link with non-Node endNode", endNode>>)]
        ELSE [obj |-> o4, out |-> Return(PyNone)]

(***************************************************************************)
(* Accessors.                                                              *)
(***************************************************************************)
getStartNode(self) == self._startNode
getEndNode(self) == self._endNode
getId(self) == self._id
getLabel(self) == self._label
getStartNodeId(self) == Node_getId(getStartNode(self))
getEndNodeId(self) == Node_getId(getEndNode(self))

getIid(self) == <<Node_getId(getStartNode(self)), Node_getId(getEndNode(self))>>

\* mutation: the setter applies the constructor's default rule
setLabelDefaulting(self, label) ==
    Store(self, "_label", IF ~Falsy(label) THEN label ELSE DEFAULT_LABEL)

\* Link.setLabel: the object after the call
setLabel(self, label) == Store(self, "_label", label)

(***************************************************************************)
(* getOtherEnd.  The failing branch builds its message from Link.getId(),  *)
(* a call of the function through the class with no receiver: Python      *)
(* raises TypeError for the missing argument before DtaError is built.     *)
(***************************************************************************)
Link_getId_NoReceiver == Raise("TypeError", <<"getId() missing 1 required positional argument: 'self'">>)

\* mutation: the branches return the matched end, not the other one
getOtherEndSame(self, node) ==
    IF Node_eq(self._startNode, node) THEN Return(self._startNode)
    ELSE IF Node_eq(self._endNode, node) THEN Return(self._endNode)
    ELSE Link_getId_NoReceiver

getOtherEnd(self, node) ==
    IF Node_eq(self._startNode, node) THEN Return(self._endNode)
    ELSE IF Node_eq(self._endNode, node) THEN Return(self._startNode)
    ELSE LET linkId == Link_getId_NoReceiver
         IN  IF linkId.kind = "raise" THEN linkId
             ELSE Raise("DtaError", <<"Link does not have end node", linkId.val, Node_getId(node)>>)

(***************************************************************************)
(* Float arithmetic in fixed point.  RoundDiv rounds the exact quotient to *)
(* the nearest integer (halves away from zero).                            *)
(***************************************************************************)
Abs(a) == IF a < 0 THEN 0 - a ELSE a
RoundDiv(a, b) ==
    LET q == (2 * Abs(a) + Abs(b)) \div (2 * Abs(b))
    IN  IF (a < 0) = (b < 0) THEN q ELSE 0 - q
FMul(a, b) == RoundDiv(a * b, Scale)
FDiv(a, b) == RoundDiv(a * Scale, b)

RECURSIVE NewtonSqrt(_, _)
NewtonSqrt(n, x) ==
    LET y == (x + n \div x) \div 2
    IN  IF y >= x THEN x ELSE NewtonSqrt(n, y)
\* the integer nearest to the square root of n
NearestSqrt(n) ==
    LET r == IF n = 0 THEN 0 ELSE NewtonSqrt(n, n)
    IN  IF n - r * r > r THEN r + 1 ELSE r

\* math.sqrt, math.pi, math.acos of the Python library
math_sqrt(v) == NearestSqrt(v * Scale)
math_pi == 314
HalfPi == math_pi \div 2

\* cos on [0, pi/2]: the Taylor series of cos below pi/4, of sin(pi/2 - x) above
CosSeries(x) ==
    LET t == FMul(x, x)
    IN  Scale - FMul(t, Scale - FMul(t, Scale - t \div 30) \div 12) \div 2
SinSeries(x) ==
    LET t == FMul(x, x)
    IN  FMul(x, Scale - FMul(t, Scale - t \div 20) \div 6)
CosQuadrant(x) == IF 2 * x > HalfPi THEN SinSeries(HalfPi - x) ELSE CosSeries(x)
math_cos(x) == IF x > HalfPi THEN 0 - CosQuadrant(math_pi - x) ELSE CosQuadrant(x)

\* cos is decreasing on [0, pi]: cos(lo) > r >= cos(hi) throughout
RECURSIVE AcosSearch(_, _, _)
AcosSearch(r, lo, hi) ==
    IF hi - lo <= 1 THEN hi
    ELSE LET mid == (lo + hi) \div 2
         IN  IF math_cos(mid) <= r THEN AcosSearch(r, lo, mid) ELSE AcosSearch(r, mid, hi)
\* math.acos on [-1, 1]: exactly 0 at 1 and pi at -1, the inverse of cos between
\* (outside [-1, 1] it raises: see acosDomain)
math_acos(r) ==
    IF r >= Scale THEN 0
    ELSE IF r <= 0 - Scale THEN math_pi
    ELSE AcosSearch(r, 0, math_pi)

(***************************************************************************)
(* Geometric queries: each reads the nodes' current positions.             *)
(***************************************************************************)
FeetPerMile == 5280
\* the miles are reported in finer units than the feet: 1 / (Scale * MileFine)
MileFine == 10 ^ 4

\* mutation: the vertical offset is left out of the distance
euclideanLengthNoY(self) ==
    math_sqrt(FMul(Node_getX(self._startNode) - Node_getX(self._endNode),
                   Node_getX(self._startNode) - Node_getX(self._endNode)))

euclideanLength(self) ==
    math_sqrt(FMul(Node_getX(self._startNode) - Node_getX(self._endNode),
                   Node_getX(self._startNode) - Node_getX(self._endNode))
              + FMul(Node_getY(self._startNode) - Node_getY(self._endNode),
                     Node_getY(self._startNode) - Node_getY(self._endNode)))

getEuclideanLengthInMiles(self) ==
    LET dx1 == Node_getX(getEndNode(self)) - Node_getX(getStartNode(self))
        dy1 == Node_getY(getEndNode(self)) - Node_getY(getStartNode(self))
    IN  RoundDiv(math_sqrt(FMul(dx1, dx1) + FMul(dy1, dy1)) * MileFine, FeetPerMile)

\* math.acos raises ValueError("math domain error") outside [-1, 1]
acosDomain(r) == r >= 0 - Scale /\ r <= Scale
MathDomainError == Raise("ValueError", <<"math domain error">>)

\* mutation: the reflection is applied below the start node, not above it
getReferenceAngleBelow(self) ==
    IF euclideanLength(self) = 0 THEN Return(0)
    ELSE LET r == FDiv(Node_getX(self._endNode) - Node_getX(self._startNode), euclideanLength(self))
             angle == math_acos(r)
         IN  IF ~acosDomain(r) THEN MathDomainError
             ELSE IF angle > 0 /\ Node_getY(self._endNode) < Node_getY(self._startNode)
             THEN Return(2 * math_pi - angle)
             ELSE Return(angle)

\* Link.getReferenceAngle: the outcome of the call
getReferenceAngle(self) ==
    IF euclideanLength(self) = 0 THEN Return(0)
    ELSE LET r == FDiv(Node_getX(self._endNode) - Node_getX(self._startNode), euclideanLength(self))
             angle == math_acos(r)
         IN  IF ~acosDomain(r) THEN MathDomainError
             ELSE IF angle > 0 /\ Node_getY(self._endNode) > Node_getY(self._startNode)
             THEN Return(2 * math_pi - angle)
             ELSE Return(angle)

getReferenceAngleInDegrees(self) ==
    LET a == getReferenceAngle(self)
    IN  IF a.kind = "raise" THEN a ELSE Return(FMul(FDiv(a.val, math_pi), 180 * Scale))

(***************************************************************************)
(* hasSameAttributes.  Reading an attribute the object does not have       *)
(* raises AttributeError.                                                  *)
(***************************************************************************)
getattrs(o) ==
    IF ExtNames \subseteq o.set
    THEN Return(<<o._facilityType, o._freeflowSpeed, o._effectiveLengthFactor,
                  o._responseTimeFactor, o._numLanes, o._roundAbout, o._level>>)
    ELSE Raise("AttributeError", <<"'Link' object has no attribute", CHOOSE a \in ExtNames : a \notin o.set>>)

\* mutation: the last attribute of the tuple is left out of the comparison
hasSameAttributesNoLevel(self, other) ==
    LET attr1 == getattrs(self)
        attr2 == getattrs(other)
    IN  IF attr1.kind = "raise" THEN attr1
        ELSE IF attr2.kind = "raise" THEN attr2
        ELSE Return(SubSeq(attr1.val, 1, 6) = SubSeq(attr2.val, 1, 6))

hasSameAttributes(self, other) ==
    LET attr1 == getattrs(self)
        attr2 == getattrs(other)
    IN  IF attr1.kind = "raise" THEN attr1
        ELSE IF attr2.kind = "raise" THEN attr2
        ELSE IF attr1.val = attr2.val THEN Return(TRUE) ELSE Return(FALSE)

(***************************************************************************)
(* The state machine: a client constructs Link objects and calls their     *)
(* methods; the network moves nodes; a richer variant of Link stores the   *)
(* seven extended attributes.  Every call records its outcome in ret.      *)
(***************************************************************************)
NoArg == <<>>
Call(op, l, arg, out) ==
    [op |-> op, self |-> l, arg |-> arg, kind |-> out.kind, exc |-> out.exc, val |-> out.val]
NoCall == Call("none", "self", NoArg, Return(PyNone))

Ids == 1 .. MaxId
Labels == {PyNone, PyStr(""), PyStr("a")}
Values == {NodeObj(n) : n \in NodeRef} \cup {PairObj}
AttrTuples ==
    {t \in [1 .. 7 -> 0 .. MaxAttr] : Cardinality({i \in 1 .. 7 : t[i] # 0}) <= MaxDiffer}

Live(l) == status[l] = "live"

\* l = Link(id_, startNode, endNode, label)
Construct(l, id_, startNode, endNode, label) ==
    /\ status[l] # "live"
    /\ LET r == Link__init__(Blank, id_, startNode, endNode, label)
       IN  /\ link' = [link EXCEPT ![l] = r.obj]
           /\ status' = [status EXCEPT ![l] = IF r.out.kind = "return" THEN "live" ELSE "failed"]
           /\ ret' = Call("__init__", l,
                          [id_ |-> id_, startNode |-> startNode, endNode |-> endNode, label |-> label],
                          r.out)
    /\ hist' = [hist EXCEPT ![l] = [src |-> "ctor", label |-> label]]
    /\ UNCHANGED <<nodeX, nodeY>>

\* a call that returns (or raises) and stores nothing
Query(l, op, arg, out) ==
    /\ Live(l)
    /\ ret' = Call(op, l, arg, out)
    /\ UNCHANGED <<link, status, hist, nodeX, nodeY>>

CallGetStartNode(l) == Query(l, "getStartNode", NoArg, Return(getStartNode(link[l])))
CallGetEndNode(l) == Query(l, "getEndNode", NoArg, Return(getEndNode(link[l])))
CallGetId(l) == Query(l, "getId", NoArg, Return(getId(link[l])))
CallGetLabel(l) == Query(l, "getLabel", NoArg, Return(getLabel(link[l])))
CallGetStartNodeId(l) == Query(l, "getStartNodeId", NoArg, Return(getStartNodeId(link[l])))
CallGetEndNodeId(l) == Query(l, "getEndNodeId", NoArg, Return(getEndNodeId(link[l])))
CallGetIid(l) == Query(l, "getIid", NoArg, Return(getIid(link[l])))
\* mutation: the lookup re-roots the link at the node it was asked about
CallGetOtherEndRerooting(l, node) ==
    /\ Live(l)
    /\ ret' = Call("getOtherEnd", l, node, getOtherEnd(link[l], node))
    /\ link' = [link EXCEPT ![l] =
                  IF node = @._endNode THEN [@ EXCEPT !._startNode = node, !._endNode = link[l]._startNode] ELSE @]
    /\ UNCHANGED <<status, hist, nodeX, nodeY>>

CallGetOtherEnd(l, node) == Query(l, "getOtherEnd", node, getOtherEnd(link[l], node))
CallEuclideanLength(l) == Query(l, "euclideanLength", NoArg, Return(euclideanLength(link[l])))
CallGetEuclideanLengthInMiles(l) ==
    Query(l, "getEuclideanLengthInMiles", NoArg, Return(getEuclideanLengthInMiles(link[l])))
CallGetReferenceAngle(l) == Query(l, "getReferenceAngle", NoArg, getReferenceAngle(link[l]))
CallGetReferenceAngleInDegrees(l) ==
    Query(l, "getReferenceAngleInDegrees", NoArg, getReferenceAngleInDegrees(link[l]))
CallHasSameAttributes(l, o) ==
    /\ Live(o)
    /\ Query(l, "hasSameAttributes", o, hasSameAttributes(link[l], link[o]))

CallSetLabel(l, label) ==
    /\ Live(l)
    /\ link' = [link EXCEPT ![l] = setLabel(link[l], label)]
    /\ hist' = [hist EXCEPT ![l] = [src |-> "set", label |-> label]]
    /\ ret' = Call("setLabel", l, label, Return(PyNone))
    /\ UNCHANGED <<status, nodeX, nodeY>>

\* the constructor of the richer variant of Link stores the seven extended
\* attributes, once
SetExtendedAttributes(l, t) ==
    /\ Live(l)
    /\ link[l].set \cap ExtNames = {}
    /\ link' = [link EXCEPT ![l] =
                  [@ EXCEPT !._facilityType = t[1], !._freeflowSpeed = t[2],
                            !._effectiveLengthFactor = t[3], !._responseTimeFactor = t[4],
                            !._numLanes = t[5], !._roundAbout = t[6], !._level = t[7],
                            !.set = @ \cup ExtNames]]
    /\ ret' = Call("setExtendedAttributes", l, t, Return(PyNone))
    /\ UNCHANGED <<status, hist, nodeX, nodeY>>

\* the network moves a node that is an endpoint of a link
MoveNode(n, x, y) ==
    /\ \E l \in LinkRef : Live(l) /\ NodeObj(n) \in {link[l]._startNode, link[l]._endNode}
    /\ nodeX' = [nodeX EXCEPT ![n] = x]
    /\ nodeY' = [nodeY EXCEPT ![n] = y]
    /\ ret' = Call("moveNode", "self", <<n, x, y>>, Return(PyNone))
    /\ UNCHANGED <<link, status, hist>>

(***************************************************************************)
(* Spec: the life of one base Link among nodes at rest.                    *)
(***************************************************************************)
NoHist == [src |-> "none", label |-> PyNone]

Init ==
    /\ link = [l \in LinkRef |-> Blank]
    /\ status = [l \in LinkRef |-> "unborn"]
    /\ hist = [l \in LinkRef |-> NoHist]
    /\ nodeX = [n \in NodeRef |-> IF n % 2 = 0 THEN Scale ELSE 0]
    /\ nodeY = [n \in NodeRef |-> IF n > 2 THEN Scale ELSE 0]
    /\ ret = NoCall

Next ==
    \E l \in {"self"} :
        \/ \E id_ \in Ids, s \in Values, e \in Values, lb \in Labels : Construct(l, id_, s, e, lb)
        \/ CallGetStartNode(l)
        \/ CallGetEndNode(l)
        \/ CallGetId(l)
        \/ CallGetLabel(l)
        \/ CallGetStartNodeId(l)
        \/ CallGetEndNodeId(l)
        \/ CallGetIid(l)
        \/ \E v \in Values : CallGetOtherEnd(l, v)
        \/ \E lb \in Labels : CallSetLabel(l, lb)
        \/ CallEuclideanLength(l)
        \/ CallGetEuclideanLengthInMiles(l)
        \/ CallGetReferenceAngle(l)
        \/ CallGetReferenceAngleInDegrees(l)
        \/ CallHasSameAttributes(l, l)
        \/ \E t \in {[i \in 1 .. 7 |-> 0]} : SetExtendedAttributes(l, t)

Spec == Init /\ [][Next]_vars

(***************************************************************************)
(* SpecGeom: one Link whose end nodes the network moves between queries.   *)
(***************************************************************************)
InitGeom ==
    /\ \E b \in {1, 2} :
          link = [l \in LinkRef |->
                    IF l = "self"
                    THEN Link__init__(Blank, 1, NodeObj(1), NodeObj(b), PyNone).obj
                    ELSE Blank]
    /\ status = [l \in LinkRef |-> IF l = "self" THEN "live" ELSE "unborn"]
    /\ hist = [l \in LinkRef |-> IF l = "self" THEN [src |-> "ctor", label |-> PyNone] ELSE NoHist]
    /\ nodeX = [n \in NodeRef |-> 0]
    /\ nodeY = [n \in NodeRef |-> 0]
    /\ ret = NoCall

NextGeom ==
    \/ \E n \in NodeRef, x \in Coord, y \in Coord : MoveNode(n, x, y)
    \/ CallEuclideanLength("self")
    \/ CallGetEuclideanLengthInMiles("self")
    \/ CallGetReferenceAngle("self")
    \/ CallGetReferenceAngleInDegrees("self")

SpecGeom == InitGeom /\ [][NextGeom]_vars

(***************************************************************************)
(* SpecFine: as SpecGeom, the nodes moving by a foot or by less.           *)
(***************************************************************************)
NextFine ==
    \/ \E n \in NodeRef, x \in FineCoord, y \in FineCoord : MoveNode(n, x, y)
    \/ CallEuclideanLength("self")
    \/ CallGetEuclideanLengthInMiles("self")
    \/ CallGetReferenceAngle("self")
    \/ CallGetReferenceAngleInDegrees("self")

SpecFine == InitGeom /\ [][NextFine]_vars

(***************************************************************************)
(* SpecAttr: two Links of the richer variant and their attributes.         *)
(***************************************************************************)
InitAttr ==
    /\ \E same \in BOOLEAN :
          link = [l \in LinkRef |->
                    IF l = "self" \/ same
                    THEN Link__init__(Blank, 1, NodeObj(1), NodeObj(2), PyNone).obj
                    ELSE Link__init__(Blank, MaxId, NodeObj(NumNodes), NodeObj(1), PyStr("a")).obj]
    /\ status = [l \in LinkRef |-> "live"]
    /\ hist = [l \in LinkRef |-> [src |-> "ctor", label |-> link[l]._label]]
    /\ nodeX = [n \in NodeRef |-> 0]
    /\ nodeY = [n \in NodeRef |-> 0]
    /\ ret = NoCall

NextAttr ==
    \E l \in LinkRef :
        \/ \E t \in AttrTuples : SetExtendedAttributes(l, t)
        \/ \E o \in LinkRef : CallHasSameAttributes(l, o)

SpecAttr == InitAttr /\ [][NextAttr]_vars

(***************************************************************************)
(* The claims.  Each is stated on ret, the outcome of the last call, and   *)
(* on the state the call was made in (no action changes the receiver or    *)
(* the nodes without replacing ret).                                       *)
(***************************************************************************)
Self == link[ret.self]
TwoPi == 2 * math_pi
Coincide(o) ==
    /\ nodeX[o._startNode.ref] = nodeX[o._endNode.ref]
    /\ nodeY[o._startNode.ref] = nodeY[o._endNode.ref]
Dx(o) == nodeX[o._endNode.ref] - nodeX[o._startNode.ref]
Dy(o) == nodeY[o._endNode.ref] - nodeY[o._startNode.ref]

\* C1: getOtherEnd called with a node that is neither stored endpoint raises
\* DtaError carrying the link's own id and the node's id, and nothing else.
C1_UnknownEndpointRaisesDtaError ==
    (/\ ret.op = "getOtherEnd"
     /\ isinstance_Node(ret.arg)
     /\ ret.arg # Self._startNode
     /\ ret.arg # Self._endNode)
    => (/\ ret.kind = "raise"
        /\ ret.exc = "DtaError"
        /\ ret.val = <<"Link does not have end node", Self._id, Node_getId(ret.arg)>>)

\* C2 (as stated): when __init__ raises for a non-Node endpoint, no attribute
\* at all has been stored on the object.
C2_NoFieldStoredWhenInitRaises ==
    (ret.op = "__init__" /\ ret.kind = "raise")
    => (ret.exc = "DtaError" /\ Self.set = {})

\* C2 (amended): when __init__ raises for a non-Node endpoint it raises
\* DtaError before either endpoint is stored; the id and the resolved label
\* have been stored by then.
C2_NoEndpointStoredWhenInitRaises ==
    (ret.op = "__init__" /\ ret.kind = "raise")
    => (/\ ret.exc = "DtaError"
        /\ ~isinstance_Node(ret.arg.startNode) \/ ~isinstance_Node(ret.arg.endNode)
        /\ Self.set = {"_id", "_label"}
        /\ Self._id = ret.arg.id_
        /\ Self._label = (IF Falsy(ret.arg.label) THEN PyStr("") ELSE ret.arg.label))

C2_Witness ==
    /\ ret.op = "__init__"
    /\ ret.kind = "raise"
    /\ ~isinstance_Node(ret.arg.startNode)
    /\ Self.set = {"_id", "_label"}

\* C3: getOtherEnd(startNode) returns the end node and getOtherEnd(endNode)
\* the start node, self-loops included; the match is by entity, not by id:
\* a node that is neither endpoint is not matched even when it shares an id.
C3_OtherEndOfStoredEndpoint ==
    ret.op = "getOtherEnd"
    => (/\ ret.arg = Self._startNode => (ret.kind = "return" /\ ret.val = Self._endNode)
        /\ ret.arg = Self._endNode => (ret.kind = "return" /\ ret.val = Self._startNode)
        /\ (ret.arg # Self._startNode /\ ret.arg # Self._endNode) => ret.kind = "raise")

C3_Witness ==
    /\ ret.op = "getOtherEnd"
    /\ ret.arg = Self._endNode
    /\ Self._startNode # Self._endNode
    /\ ret.kind = "return"
    /\ ret.val = Self._startNode

\* C4: getReferenceAngle returns a value in [0, 2 pi) for every pair of
\* endpoint positions, exactly 0 when the endpoints coincide.
C4_AngleInRange ==
    ret.op = "getReferenceAngle"
    => (/\ ret.kind = "return"
        /\ ret.val >= 0
        /\ ret.val < TwoPi
        /\ Coincide(Self) => ret.val = 0)

\* C5: getReferenceAngle follows the clockwise convention: with a the
\* unsigned angle acos(dx / length) in [0, pi], it returns 2 pi - a exactly
\* when a > 0 and the end node lies above the start node, and a otherwise;
\* an end node one foot east, north, south, west of the start node gives
\* 0, 3 pi / 2, pi / 2, pi; getReferenceAngleInDegrees is that value times
\* 180 / pi (up to the rounding of the quotient by pi): 0, 270, 90, 180.
DegreesTolerance == 180 \div 2
C5_ClockwiseConvention ==
    LET a == math_acos(FDiv(Dx(Self), euclideanLength(Self)))
        east == Dx(Self) = Scale /\ Dy(Self) = 0
        north == Dx(Self) = 0 /\ Dy(Self) = Scale
        south == Dx(Self) = 0 /\ Dy(Self) = 0 - Scale
        west == Dx(Self) = 0 - Scale /\ Dy(Self) = 0
        angle == getReferenceAngle(Self).val
    IN  /\ (ret.op = "getReferenceAngle" /\ ret.kind = "return" /\ ~Coincide(Self))
           => (/\ a >= 0 /\ a <= math_pi
               /\ (a > 0 /\ Dy(Self) > 0) => ret.val = TwoPi - a
               /\ ~(a > 0 /\ Dy(Self) > 0) => ret.val = a
               /\ east => ret.val = 0
               /\ north => ret.val = (3 * math_pi) \div 2
               /\ south => ret.val = math_pi \div 2
               /\ west => ret.val = math_pi)
        /\ (ret.op = "getReferenceAngleInDegrees" /\ ret.kind = "return")
           => (/\ Abs(ret.val * math_pi - angle * 180 * Scale) <= DegreesTolerance * math_pi
               /\ east => ret.val = 0
               /\ north => ret.val = 270 * Scale
               /\ south => ret.val = 90 * Scale
               /\ west => ret.val = 180 * Scale)

C5_Witness ==
    /\ ret.op = "getReferenceAngle"
    /\ nodeX[Self._startNode.ref] = 0 /\ nodeY[Self._startNode.ref] = 0
    /\ nodeX[Self._endNode.ref] = 0 /\ nodeY[Self._endNode.ref] = Scale
    /\ ret.kind = "return"
    /\ ret.val = (3 * math_pi) \div 2

\* C6: for two links that carry the seven extended attributes,
\* hasSameAttributes returns True exactly when the seven are pairwise equal;
\* it is reflexive and symmetric, and id, label and endpoints play no part.
C6_SameAttributes ==
    LET other == link[ret.arg]
    IN  (ret.op = "hasSameAttributes" /\ ExtNames \subseteq Self.set /\ ExtNames \subseteq other.set)
        => (/\ ret.kind = "return"
            /\ ret.val \in BOOLEAN
            /\ ret.val = (\A a \in ExtNames : Self[a] = other[a])
            /\ ret.arg = ret.self => ret.val = TRUE
            /\ hasSameAttributes(other, Self) = Return(ret.val))

C6_Witness ==
    /\ ret.op = "hasSameAttributes"
    /\ ret.kind = "return"
    /\ ret.val = TRUE
    /\ link[ret.arg]._id # Self._id
    /\ link[ret.arg]._label # Self._label
    /\ link[ret.arg]._startNode # Self._startNode
    /\ link[ret.arg]._endNode # Self._endNode
    /\ Self._level # 0

\* C7: getLabel returns the argument of the most recent setLabel, whatever
\* it is (None and "" are kept as given); before any setLabel it returns the
\* constructor's label, or "" when that label was falsy.
C7_LabelRoundTrip ==
    ret.op = "getLabel"
    => (/\ ret.kind = "return"
        /\ hist[ret.self].src = "set" => ret.val = hist[ret.self].label
        /\ (hist[ret.self].src = "ctor" /\ Falsy(hist[ret.self].label)) => ret.val = PyStr("")
        /\ (hist[ret.self].src = "ctor" /\ ~Falsy(hist[ret.self].label)) => ret.val = hist[ret.self].label)

C7_Witness ==
    /\ ret.op = "getLabel"
    /\ hist[ret.self] = [src |-> "set", label |-> PyNone]
    /\ ret.val = PyNone

\* C8: __init__ validates the start node, then the end node, and reports the
\* first failing one: a non-Node startNode raises DtaError naming startNode
\* whatever endNode is; a non-Node endNode raises DtaError naming endNode
\* only when startNode is a Node; it returns only when both are Nodes.
C8_ValidationOrder ==
    ret.op = "__init__"
    => LET okStart == isinstance_Node(ret.arg.startNode)
           okEnd == isinstance_Node(ret.arg.endNode)
       IN  /\ ~okStart => ret = Call("__init__", ret.self, ret.arg,
                                     Raise("DtaError", <<"Initializing Link with non-Node startNode", ret.arg.startNode>>))
           /\ (okStart /\ ~okEnd) => ret = Call("__init__", ret.self, ret.arg,
                                     Raise("DtaError", <<"Initializing Link with non-Node endNode", ret.arg.endNode>>))
           /\ (okStart /\ okEnd) <=> ret.kind = "return"
           /\ ret.kind = "return" <=> status[ret.self] = "live"

C8_Witness ==
    /\ ret.op = "__init__"
    /\ ~isinstance_Node(ret.arg.startNode)
    /\ ~isinstance_Node(ret.arg.endNode)
    /\ ret.kind = "raise"
    /\ ret.val[1] = "Initializing Link with non-Node startNode"

\* C9: once a Link is constructed, no operation changes its id, start node
\* or end node; its label changes only in a setLabel step on it; every other
\* Link operation leaves the whole Link state unchanged; and getIid returns
\* the pair (start node id, end node id) in that order.
C9_StepFrame ==
    \A l \in LinkRef :
        status[l] = "live"
        => (/\ status'[l] = "live"
            /\ link'[l]._id = link[l]._id
            /\ link'[l]._startNode = link[l]._startNode
            /\ link'[l]._endNode = link[l]._endNode
            /\ {"_id", "_label", "_startNode", "_endNode"} \subseteq link'[l].set
            /\ link'[l]._label # link[l]._label => (ret'.op = "setLabel" /\ ret'.self = l)
            /\ ret'.op = "setLabel" => link' = [link EXCEPT ![ret'.self]._label = ret'.arg]
            /\ ret'.op \notin {"setLabel", "setExtendedAttributes"} => link' = link)
C9_IidOrdered ==
    ret.op = "getIid"
    => ret = Call("getIid", ret.self, NoArg,
                  Return(<<Node_getId(Self._startNode), Node_getId(Self._endNode)>>))
C9_Frame == [][C9_StepFrame]_vars /\ []C9_IidOrdered

C9_Witness ==
    /\ ret.op = "getIid"
    /\ ret.val[1] > ret.val[2]
    /\ hist[ret.self].src = "set"
    /\ Self._label # PyStr("")

====
